---------------------------- MODULE Spec2Model ----------------------------
(***************************************************************************)
(* A model of class SGA8Queens (src/8-rainhas/SGA8Queens.py): a simple     *)
(* genetic algorithm for the 8-queens problem.                             *)
(*                                                                         *)
(* Python values are modelled with their dynamic type: an int is           *)
(* [int |-> k], a str is [str |-> <<characters>>] (the characters of a     *)
(* binary string are the digits 0 and 1).  A Python list is a sequence;    *)
(* the operators below take Python's 0-based indices.  A float fitness     *)
(* 1 / (result + eps) is the exact fraction [num |-> 1, den |-> result+1]. *)
(* A variable that holds a list holds [list |-> sequence], one that holds  *)
(* an array [array |-> sequence], and None is [none |-> TRUE].             *)
(* A call that raises returns a record whose err field names the           *)
(* exception.                                                              *)
(***************************************************************************)
EXTENDS Integers, Sequences, FiniteSets, TLC

VARIABLES
    pc,                 \* position in the program
    args,               \* arguments of the constructor call
    p_c, p_m, pop_size, use_binary_rep,                  \* self.* set by __init__
    recombine, mutate, select_parents, select_survivors, \* self.* method choices
    population, pop_fitness, num_fitness_eval,           \* self.* mutable state
    p1, p2, c1, c2,     \* locals of run()
    gen,                \* generations completed by the loop of run()
    report,             \* value returned by run()
    ret                 \* value returned by a direct call of fitness()

cfgVars == <<p_c, p_m, pop_size, use_binary_rep,
             recombine, mutate, select_parents, select_survivors>>
popVars == <<population, pop_fitness>>
locals  == <<p1, p2, c1, c2>>
vars == <<pc, args, cfgVars, popVars, num_fitness_eval, locals, gen, report, ret>>

---------------------------------------------------------------------------
(* Bounds of the model *)

\* pop_size of the instances that are run (the source's default is 100).
PopSize == 5
\* The evaluation budget of run()'s loop guard (10000 in the source, line 138),
\* scaled to the model's population.
MaxEvals == 6
\* Generations of one run in which the crossover / mutation draws may succeed.
MaxGen == 1
\* rng.random() of roulette_selection is drawn from {0/RandDen .. (RandDen-1)/RandDen}.
RandDen == 2
\* Input permutations of the operator specifications permute the first
\* FreePos positions of a base permutation.
FreePos == 3
\* scramble_mutation: intervals up to this length are shuffled in every way.
MaxShuffle == 3
\* edge_crossover: the tie-break draws of one pass are the binary digits of a
\* stream number below TieStreams.
TieStreams == 2

(* Program constants *)
N == 8                  \* board size, fitness() line 86
eps == 1                \* fitness() line 85
TournamentSize == 5     \* select_2_out_5, line 162
DefaultP_c == 90        \* crossover_prob = 0.9, in hundredths
DefaultP_m == 40        \* mutation_prob = 0.4, in hundredths

---------------------------------------------------------------------------
(* Python values and lists *)

PyInt(k) == [int |-> k]
PyStr(s) == [str |-> s]
IsPyInt(v) == DOMAIN v = {"int"}
\* the value of a variable that holds a list, and of one that holds an array
PyList(l) == [list |-> l]
NpArray(l) == [array |-> l]
IntList(s) == [k \in 1..Len(s) |-> PyInt(s[k])]

\* l[a:b]
Slice(l, a, b) == SubSeq(l, a + 1, b)
\* v in l
In(v, l) == \E k \in 1..Len(l) : l[k] = v
\* l.index(v), for v in l
Index(l, v) == CHOOSE k \in 0..(Len(l) - 1) :
                   /\ l[k + 1] = v
                   /\ \A m \in 0..(k - 1) : l[m + 1] # v
\* l with l[k] = v
Put(l, k, v) == [l EXCEPT ![k + 1] = v]
\* n * [v]
Repeat(n, v) == [k \in 1..n |-> v]
\* reversed list
Reverse(l) == [k \in 1..Len(l) |-> l[Len(l) + 1 - k]]

Min(S) == CHOOSE x \in S : \A y \in S : x <= y
Max(S) == CHOOSE x \in S : \A y \in S : x >= y

RECURSIVE PermsOf(_)
\* all orderings of the set S, as sequences
PermsOf(S) == IF S = {} THEN {<<>>}
              ELSE UNION {{<<x>> \o p : p \in PermsOf(S \ {x})} : x \in S}

---------------------------------------------------------------------------
(* Representation codec *)

RECURSIVE Bin(_)
\* the binary digits of n >= 0, most significant first, no leading zero
Bin(n) == IF n < 2 THEN <<n>> ELSE Bin(n \div 2) \o <<n % 2>>

\* '{0:03b}'.format(gene): at least 3 digits, zero filled on the left
Format03b(n) == LET d == Bin(n)
                IN  IF Len(d) >= 3 THEN d ELSE Repeat(3 - Len(d), 0) \o d

RECURSIVE ParseBinary(_)
\* int(s, 2)
ParseBinary(s) == IF s = <<>> THEN 0
                  ELSE 2 * ParseBinary(SubSeq(s, 1, Len(s) - 1)) + s[Len(s)]

_to_binary_string(int_p) == [k \in 1..Len(int_p) |-> PyStr(Format03b(int_p[k].int))]

\* truth value of a Python bool or int
Truthy(v) == IF DOMAIN v = {"bool"} THEN v.bool ELSE v.int # 0

---------------------------------------------------------------------------
(* Fitness evaluator *)

\* numpy indexing: a negative index counts from the end of the array
NpIndex(k, size) == IF k < 0 THEN k + size ELSE k

\* queen_pos of row i (0-based)
QueenPos(table, i, binary) ==
    IF binary THEN ParseBinary(table[i + 1].str) ELSE table[i + 1].int

\* f_row, f_mdiag, f_sdiag after the first loop of fitness()
f_row(table, binary) ==
    [k \in 0..(N - 1) |->
        Cardinality({i \in 0..(N - 1) : NpIndex(QueenPos(table, i, binary) - 1, N) = k})]
\* f_mdiag indexed by queen_pos - i - 1: the diagonal f_sdiag already counts
f_mdiag_same_diagonal(table, binary) ==
    [k \in 0..(2 * N - 1) |->
        Cardinality({i \in 0..(N - 1) :
                        NpIndex(QueenPos(table, i, binary) - i - 1, 2 * N) = k})]
f_mdiag(table, binary) ==
    [k \in 0..(2 * N - 1) |->
        Cardinality({i \in 0..(N - 1) :
                        NpIndex(QueenPos(table, i, binary) + i - 1, 2 * N) = k})]
f_sdiag(table, binary) ==
    [k \in 0..(2 * N - 1) |->
        Cardinality({i \in 0..(N - 1) :
                        NpIndex(N - QueenPos(table, i, binary) + i - 1, 2 * N) = k})]

RECURSIVE ConflictSum(_, _, _, _)
\* result after the iterations i .. 2*N-1 of the second loop of fitness()
ConflictSum(row, mdiag, sdiag, i) ==
    IF i >= 2 * N THEN 0
    ELSE LET x == IF i < N THEN row[i] ELSE 0
             y == mdiag[i]
             z == sdiag[i]
         IN  ((x * (x - 1)) + (y * (y - 1)) + (z * (z - 1))) \div 2
             + ConflictSum(row, mdiag, sdiag, i + 1)

\* result: the number of conflicts fitness() counts
Conflicts(table, binary) ==
    ConflictSum(f_row(table, binary), f_mdiag(table, binary), f_sdiag(table, binary), 0)

\* the value fitness() returns: 1 / (result + eps)
fitness(table, binary) == [num |-> 1, den |-> Conflicts(table, binary) + eps]

\* comparisons of two fitness values
FLess(a, b) == a.num * b.den < b.num * a.den
FLeq(a, b) == a.num * b.den <= b.num * a.den
FOne == [num |-> 1, den |-> 1]

---------------------------------------------------------------------------
(* Recombination: each operator returns [err, c1, c2]; err = "" is a return *)

Ok(a, b) == [err |-> "", c1 |-> a, c2 |-> b]
Raise(e) == [err |-> e, c1 |-> <<>>, c2 |-> <<>>]
\* c1, c2 = p1[:], p2[:]
Copies(a, b) == Ok(a, b)

RECURSIVE CrossfillLoop(_, _, _, _, _, _, _)
\* iterations j .. 7 of the loop of cut_and_crossfill_crossover
CrossfillLoop(pa, pb, a, b, it1, it2, j) ==
    IF j >= 8 THEN Ok(a, b)
    ELSE LET fill1 == ~In(pb[j + 1], a)
             fill2 == ~In(pa[j + 1], b)
         IN  IF (fill1 /\ it1 >= Len(a)) \/ (fill2 /\ it2 >= Len(b))
             THEN Raise("IndexError")
             ELSE CrossfillLoop(pa, pb,
                                IF fill1 THEN Put(a, it1, pb[j + 1]) ELSE a,
                                IF fill2 THEN Put(b, it2, pa[j + 1]) ELSE b,
                                IF fill1 THEN it1 + 1 ELSE it1,
                                IF fill2 THEN it2 + 1 ELSE it2,
                                j + 1)

\* cut_and_crossfill_crossover with the crossover applied at cut point i
cut_and_crossfill_crossover(pa, pb, i) ==
    CrossfillLoop(pa, pb,
                  Slice(pa, 0, i) \o Repeat(8 - i, PyStr(<<>>)),
                  Slice(pb, 0, i) \o Repeat(8 - i, PyStr(<<>>)),
                  i, i, 0)

RECURSIVE PmxChase(_, _, _, _, _)
\* while pa[it] in pb[i:j+1]: it = pb.index(pa[it])
PmxChase(pa, pb, i, j, it) ==
    IF In(pa[it + 1], Slice(pb, i, j + 1))
    THEN PmxChase(pa, pb, i, j, Index(pb, pa[it + 1]))
    ELSE it

\* the body of pmx_crossover's first loop for allele k and the child c that
\* received pa's segment
PmxPlace(pa, pb, c, i, j, k) ==
    IF ~In(pb[k + 1], Slice(pa, i, j + 1))
    THEN IF ~In(pa[k + 1], Slice(pb, i, j + 1))
         THEN Put(c, Index(pb, pa[k + 1]), pb[k + 1])
         ELSE LET it == PmxChase(pa, pb, i, j, Index(pb, pa[k + 1]))
              IN  Put(c, Index(pb, pa[it + 1]), pb[k + 1])
    ELSE c

RECURSIVE PmxLoop(_, _, _, _, _, _, _)
\* iterations k .. j of pmx_crossover's first loop
PmxLoop(pa, pb, a, b, i, j, k) ==
    IF k > j THEN Ok(a, b)
    ELSE PmxLoop(pa, pb, PmxPlace(pa, pb, a, i, j, k), PmxPlace(pb, pa, b, i, j, k),
                 i, j, k + 1)

\* "Fill the remaining positions."
PmxFill(c, other) == [k \in 1..Len(c) |-> IF c[k] = PyInt(0) THEN other[k] ELSE c[k]]

\* pmx_crossover with the crossover applied at the drawn points i0, j0
pmx_crossover(pa, pb, i0, j0) ==
    LET i == IF i0 > j0 THEN j0 ELSE i0
        j == IF i0 > j0 THEN i0 ELSE j0
        seg(c, p) == [k \in 1..8 |-> IF k - 1 >= i /\ k - 1 <= j THEN p[k] ELSE c[k]]
        r == PmxLoop(pa, pb, seg(Repeat(8, PyInt(0)), pa), seg(Repeat(8, PyInt(0)), pb),
                     i, j, i)
    IN  Ok(PmxFill(r.c1, pb), PmxFill(r.c2, pa))

RECURSIVE CycleWalk(_, _, _, _, _, _, _)
\* the inner while loop of cyclic_crossover
CycleWalk(pa, pb, a, b, turn, start_i, curr_i) ==
    IF curr_i = start_i THEN Ok(a, b)
    ELSE CycleWalk(pa, pb,
                   Put(a, curr_i, IF turn = 0 THEN pa[curr_i + 1] ELSE pb[curr_i + 1]),
                   Put(b, curr_i, IF turn = 0 THEN pb[curr_i + 1] ELSE pa[curr_i + 1]),
                   turn, start_i, Index(pa, pb[curr_i + 1]))

RECURSIVE CycleLoop(_, _, _, _, _)
\* the outer while loop of cyclic_crossover
CycleLoop(pa, pb, a, b, turn) ==
    IF ~(In(PyInt(0), a) \/ In(PyInt(0), b)) THEN Ok(a, b)
    ELSE IF ~In(PyInt(0), a) THEN Raise("ValueError")
    ELSE LET start_i == Index(a, PyInt(0))
             a1 == Put(a, start_i, IF turn = 0 THEN pa[start_i + 1] ELSE pb[start_i + 1])
             b1 == Put(b, start_i, IF turn = 0 THEN pb[start_i + 1] ELSE pa[start_i + 1])
             r == CycleWalk(pa, pb, a1, b1, turn, start_i, Index(pa, pb[start_i + 1]))
         IN  CycleLoop(pa, pb, r.c1, r.c2, (turn + 1) % 2)

\* cyclic_crossover with the crossover applied
cyclic_crossover(pa, pb) == CycleLoop(pa, pb, Repeat(8, PyInt(0)), Repeat(8, PyInt(0)), 0)

RECURSIVE SortInts(_)
\* edges.sort(): the list in ascending order
SortInts(l) ==
    IF l = <<>> THEN <<>>
    ELSE LET m == Min({l[k].int : k \in 1..Len(l)})
             at == CHOOSE k \in 1..Len(l) : l[k].int = m
         IN  <<l[at]>> \o SortInts(SubSeq(l, 1, at - 1) \o SubSeq(l, at + 1, Len(l)))

\* l[k] for a Python index k >= -1
PyAt(l, k) == IF k < 0 THEN l[Len(l) + k + 1] ELSE l[k + 1]

\* the edges of value index in _edge_table
EdgesOf(pa, pb, index) ==
    LET ia == Index(pa, PyInt(index))
        ib == Index(pb, PyInt(index))
    IN  SortInts(<<PyAt(pa, ia - 1), PyAt(pa, (ia + 1) % Len(pa)),
                   PyAt(pb, ib - 1), PyAt(pb, (ib + 1) % Len(pb))>>)

\* _edge_table raises ValueError when a value 1..len(p1) is in neither list
EdgeTableRaises(pa, pb) ==
    \E index \in 1..Len(pa) : ~In(PyInt(index), pa) \/ ~In(PyInt(index), pb)

_edge_table(pa, pb) == [index \in 1..Len(pa) |-> EdgesOf(pa, pb, index)]

\* every list of the table filtered by x != curr_el
RemoveFromTable(table, curr_el) ==
    [key \in DOMAIN table |-> SelectSeq(table[key], LAMBDA x : x # curr_el)]

Count(l, v) == Cardinality({k \in 1..Len(l) : l[k] = v})
Elems(l) == {l[k] : k \in 1..Len(l)}

RECURSIVE SetToSeq(_)
\* the elements of a set of ints, ascending: the order in which select_next
\* lists the candidates it draws from (edges are sorted, the sort by list
\* length is stable)
SetToSeq(S) == IF S = {} THEN <<>>
               ELSE LET m == CHOOSE x \in S : \A y \in S : x.int <= y.int
                    IN  <<m>> \o SetToSeq(S \ {m})

\* rng.choice(candidates): the candidate at the drawn index
Choice(candidates, draw) == candidates[(draw % Len(candidates)) + 1]

\* select_next, with the index its rng.choice draws: [err |-> ""] with the
\* element, or the exception.  rng.choice(remaining_elements) is numpy's
\* Generator.choice on a set: it takes a sequence or an int and raises
\* ValueError for a set.
select_next(edge_table, current_key, current_child, draw) ==
    LET edges == edge_table[current_key.int]
        with_common_edges == {x \in Elems(edges) : Count(edges, x) = 2}
        len_of(x) == Cardinality(Elems(edge_table[x.int]))
        smallest_length == Min({len_of(x) : x \in Elems(edges)})
        elements_with_smallest_list == {y \in Elems(edges) : len_of(y) = smallest_length}
    IN  IF Len(edges) > 0
        THEN IF with_common_edges # {}
             THEN [err |-> "", element |-> Choice(SetToSeq(with_common_edges), draw)]
             ELSE [err |-> "",
                   element |-> Choice(SetToSeq(elements_with_smallest_list), draw)]
        ELSE [err |-> "ValueError", element |-> PyInt(0)]

\* the draw of step k in the stream t of tie-break draws
DrawAt(t, k) == (t \div (2 ^ k)) % 2

RECURSIVE EdgeGrow(_, _, _, _, _)
\* the while loop of edge_crossover from the state (edge_table, child,
\* curr_el), n = len(p1): the child built, or <<>> when select_next raises
EdgeGrow(edge_table, child, curr_el, n, t) ==
    IF Len(child) >= n THEN child
    ELSE LET table == RemoveFromTable(edge_table, curr_el)
             r == select_next(table, curr_el, child, DrawAt(t, Len(child) - 1))
         IN  IF r.err # "" THEN <<>>
             ELSE EdgeGrow(table, Append(child, r.element), r.element, n, t)

\* one pass of "for _ in range(2)": first is the index rng.choice(p1) draws
EdgeChild(pa, pb, first, t) ==
    EdgeGrow(_edge_table(pa, pb), <<pa[first + 1]>>, pa[first + 1], Len(pa), t)

\* edge_crossover with the crossover applied; (f1, t1) and (f2, t2) are the
\* draws of the two passes
edge_crossover(pa, pb, f1, t1, f2, t2) ==
    IF EdgeTableRaises(pa, pb) THEN Raise("ValueError")
    ELSE LET a == EdgeChild(pa, pb, f1, t1)
             b == EdgeChild(pa, pb, f2, t2)
         IN  IF a = <<>> \/ b = <<>> THEN Raise("ValueError") ELSE Ok(a, b)

---------------------------------------------------------------------------
(* Mutation: each operator is given the drawn positions *)

swap_mutation(child, i, j) ==
    [k \in 1..Len(child) |-> IF k = i + 1 THEN child[j + 1]
                             ELSE IF k = j + 1 THEN child[i + 1] ELSE child[k]]

\* an insertion that leaves the moved gene at its old position too
insert_mutation_keeps_gene(child, i0, j0) ==
    LET i == IF j0 < i0 THEN j0 ELSE i0
        j == IF j0 < i0 THEN i0 ELSE j0
    IN  Slice(child, 0, i + 1) \o <<child[j + 1]>> \o Slice(child, i + 1, Len(child))

insert_mutation(child, i0, j0) ==
    LET i == IF j0 < i0 THEN j0 ELSE i0
        j == IF j0 < i0 THEN i0 ELSE j0
    IN  Slice(child, 0, i + 1) \o <<child[j + 1]>> \o Slice(child, i + 1, j)
            \o Slice(child, j + 1, Len(child))

\* shuffled is the interval child[i:j+1] after np.random.shuffle
scramble_mutation(child, i0, j0, shuffled) ==
    LET i == IF j0 < i0 THEN j0 ELSE i0
        j == IF j0 < i0 THEN i0 ELSE j0
    IN  Slice(child, 0, i) \o shuffled \o Slice(child, j + 1, Len(child))

inversion_mutation(child, i0, j0) ==
    LET i == IF j0 < i0 THEN j0 ELSE i0
        j == IF j0 < i0 THEN i0 ELSE j0
    IN  Slice(child, 0, i) \o Reverse(Slice(child, i, j + 1))
            \o Slice(child, j + 1, Len(child))

---------------------------------------------------------------------------
(* Strategy dispatch: the methods __init__ binds *)

PyNone == [none |-> TRUE]
PyBool(b) == [bool |-> b]

RecombinationMethods ==
    <<"cut_and_crossfill_crossover", "pmx_crossover", "edge_crossover", "cyclic_crossover">>
MutationMethods ==
    <<"swap_mutation", "insert_mutation", "scramble_mutation", "inversion_mutation">>
ParentSelMethods == <<"select_2_out_5", "roulette_selection">>
SurvivorSelMethods == <<"replace_worst", "replace_parents_by_childs">>

\* __init__ raises ValueError for these arguments
InitRaises(a) ==
    \/ a.recombination_method \notin 1..4
    \/ a.mutation_method \notin 1..4
    \/ a.parents_sel_method \notin 1..2
    \/ a.survivor_sel_method \notin 1..2

\* the attributes __init__ sets, for arguments it accepts
InitFields(a) ==
    [p_c |-> a.crossover_prob,
     p_m |-> a.mutation_prob,
     pop_size |-> a.pop_size,
     population |-> PyNone,
     pop_fitness |-> PyNone,
     num_fitness_eval |-> 0,
     use_binary_rep |-> a.use_binary_rep,
     recombine |-> RecombinationMethods[a.recombination_method],
     mutate |-> MutationMethods[a.mutation_method],
     select_parents |-> ParentSelMethods[a.parents_sel_method],
     select_survivors |-> SurvivorSelMethods[a.survivor_sel_method]]

\* rng.uniform() < p, for p in hundredths: the outcomes the draw can have
Applies(p) == {b \in BOOLEAN : (b => p > 0) /\ (~b => p < 100)}

\* self.recombine(p1, p2) under the draws d
Recombination(method, pa, pb, d) ==
    IF ~d.apply THEN Copies(pa, pb)
    ELSE CASE method = "cut_and_crossfill_crossover" ->
                cut_and_crossfill_crossover(pa, pb, d.i)
           [] method = "pmx_crossover" -> pmx_crossover(pa, pb, d.i, d.j)
           [] method = "edge_crossover" -> edge_crossover(pa, pb, d.f1, d.t1, d.f2, d.t2)
           [] method = "cyclic_crossover" -> cyclic_crossover(pa, pb)

\* the draws a recombination method makes: cut points from cuts, pairs of
\* points from pairs, first elements from firsts, tie-break streams from ties
RecombinationDraws(method, cuts, pairs, firsts, ties) ==
    LET none == [apply |-> FALSE, i |-> 0, j |-> 0, f1 |-> 0, t1 |-> 0, f2 |-> 0, t2 |-> 0]
    IN  {none} \cup
        CASE method = "cut_and_crossfill_crossover" ->
                {[none EXCEPT !.apply = TRUE, !.i = i] : i \in cuts}
          [] method = "pmx_crossover" ->
                {[none EXCEPT !.apply = TRUE, !.i = pr[1], !.j = pr[2]] : pr \in pairs}
          [] method = "edge_crossover" ->
                {[none EXCEPT !.apply = TRUE, !.f1 = a, !.t1 = b, !.f2 = c, !.t2 = e] :
                    a \in firsts, b \in ties, c \in firsts, e \in ties}
          [] method = "cyclic_crossover" -> {[none EXCEPT !.apply = TRUE]}

\* applying an index permutation sh to an interval: the interval shuffled
Shuffled(interval, sh) == [k \in 1..Len(interval) |-> interval[sh[k]]]

\* self.mutate(child) under the draws d
Mutation(method, child, d) ==
    IF ~d.apply THEN child
    ELSE CASE method = "swap_mutation" -> swap_mutation(child, d.i, d.j)
           [] method = "insert_mutation" -> insert_mutation(child, d.i, d.j)
           [] method = "scramble_mutation" ->
                scramble_mutation(child, d.i, d.j,
                    Shuffled(Slice(child, Min({d.i, d.j}), Max({d.i, d.j}) + 1), d.sh))
           [] method = "inversion_mutation" -> inversion_mutation(child, d.i, d.j)

\* shuffles of an interval of length n: every one up to MaxShuffle, the
\* rotations beyond
Shuffles(n) ==
    IF n <= MaxShuffle THEN PermsOf(1..n)
    ELSE {[k \in 1..n |-> ((k + r - 1) % n) + 1] : r \in 0..(n - 1)}

\* the draws a mutation method makes, with the positions drawn from pairs
MutationDraws(method, pairs) ==
    {[apply |-> FALSE, i |-> 0, j |-> 0, sh |-> <<>>]} \cup
    IF method = "scramble_mutation"
    THEN UNION {{[apply |-> TRUE, i |-> pr[1], j |-> pr[2], sh |-> sh] :
                    sh \in Shuffles(Max({pr[1], pr[2]}) - Min({pr[1], pr[2]}) + 1)} :
                pr \in pairs}
    ELSE {[apply |-> TRUE, i |-> pr[1], j |-> pr[2], sh |-> <<>>] : pr \in pairs}

\* rng.choice(8, size=2, replace=False): every ordered pair of distinct points
AllPairs == {pr \in (0..7) \X (0..7) : pr[1] # pr[2]}

---------------------------------------------------------------------------
(* Parent selection *)

\* self.pop_fitness.max()
MaxFitness(f) == CHOOSE x \in {f[k] : k \in 1..Len(f)} : \A k \in 1..Len(f) : FLeq(f[k], x)

\* select_2_out_5: the pairs it can return.  rng.choice draws 5 distinct
\* individuals in a random order; argsort puts the two fittest first, equal
\* fitnesses in an order that depends on the order of the draw.
select_2_out_5(pop, binary) ==
    LET fit == [k \in 1..Len(pop) |-> fitness(pop[k], binary)]
        samples == {S \in SUBSET (1..Len(pop)) : Cardinality(S) = TournamentSize}
    IN  IF Len(pop) < TournamentSize THEN {[err |-> "ValueError", p1 |-> <<>>, p2 |-> <<>>]}
        ELSE {[err |-> "", p1 |-> pop[pr[1]], p2 |-> pop[pr[2]]] :
                 pr \in {q \in (1..Len(pop)) \X (1..Len(pop)) :
                            /\ q[1] # q[2]
                            /\ FLeq(fit[q[2]], fit[q[1]])
                            /\ \E S \in samples :
                                  /\ q[1] \in S /\ q[2] \in S
                                  /\ \A x \in S \ {q[1], q[2]} : FLeq(fit[x], fit[q[2]])}}

RECURSIVE Gcd(_, _)
Gcd(a, b) == IF b = 0 THEN a ELSE Gcd(b, a % b)
\* the least common multiple of a and b, each evaluated once
Lcm(a, b) == CHOOSE m \in {(x * y) \div Gcd(x, y) : x \in {a}, y \in {b}} : TRUE
RECURSIVE LcmDen(_, _)
\* a common denominator of the fitness values f[k..]
LcmDen(f, k) == IF k > Len(f) THEN 1 ELSE Lcm(f[k].den, LcmDen(f, k + 1))

RECURSIVE CumWeight(_, _, _)
\* the sum of f[1..k] in units of 1 / D
CumWeight(f, D, k) == IF k = 0 THEN 0
                      ELSE CumWeight(f, D, k - 1) + f[k].num * (D \div f[k].den)

\* the index the inner loop of roulette_selection stops at for
\* rand_val = r / RandDen: the first with rand_val < cum_prob + f / fitness_sum
RouletteIndex(f, r) ==
    LET D == LcmDen(f, 1)
        fitness_sum == CumWeight(f, D, Len(f))
    IN  Min({k \in 1..Len(f) : r * fitness_sum < RandDen * CumWeight(f, D, k)}) - 1

\* roulette_selection for the draws r1 / RandDen and r2 / RandDen
roulette_selection(pop, f, r1, r2) ==
    [err |-> "", p1 |-> pop[RouletteIndex(f, r1) + 1], p2 |-> pop[RouletteIndex(f, r2) + 1]]

\* self.select_parents(): the pairs it can return
SelectParentsOutcomes(method, pop, f, binary) ==
    IF method = "select_2_out_5" THEN select_2_out_5(pop, binary)
    ELSE {roulette_selection(pop, f, r1, r2) : r1 \in 0..(RandDen - 1), r2 \in 0..(RandDen - 1)}

\* fitness() calls of one call of self.select_parents()
SelectParentsEvals(method) == IF method = "select_2_out_5" THEN TournamentSize ELSE 0

---------------------------------------------------------------------------
(* Survivor selection: each returns [err, population, pop_fitness, evals] *)

\* np.argsort(self.pop_fitness)[:2]: the two lowest, equal fitnesses in an
\* order the sort does not fix
WeakestSolutions(f) ==
    {q \in (1..Len(f)) \X (1..Len(f)) :
        /\ q[1] # q[2]
        /\ FLeq(f[q[1]], f[q[2]])
        /\ \A x \in (1..Len(f)) \ {q[1], q[2]} : FLeq(f[q[2]], f[x])}

\* replace_worst storing each child's fitness in the other child's slot
replace_worst_swapped_fitness(pop, f, a, b, binary, weakest_solutions) ==
    [err |-> "",
     population |-> [pop EXCEPT ![weakest_solutions[1]] = a, ![weakest_solutions[2]] = b],
     pop_fitness |-> [f EXCEPT ![weakest_solutions[1]] = fitness(b, binary),
                               ![weakest_solutions[2]] = fitness(a, binary)],
     evals |-> 2]

\* replace_worst evaluating the whole population again
replace_worst_recomputes_table(pop, f, a, b, binary, weakest_solutions) ==
    LET replaced == [pop EXCEPT ![weakest_solutions[1]] = a, ![weakest_solutions[2]] = b]
    IN  [err |-> "",
         population |-> replaced,
         pop_fitness |-> [k \in 1..Len(pop) |-> fitness(replaced[k], binary)],
         evals |-> Len(pop)]

replace_worst(pop, f, a, b, binary, weakest_solutions) ==
    [err |-> "",
     population |-> [pop EXCEPT ![weakest_solutions[1]] = a, ![weakest_solutions[2]] = b],
     pop_fitness |-> [f EXCEPT ![weakest_solutions[1]] = fitness(a, binary),
                               ![weakest_solutions[2]] = fitness(b, binary)],
     evals |-> 2]

replace_parents_by_childs(pop, f, a, b, pa, pb) ==
    IF ~In(pa, pop) \/ ~In(pb, pop)
    THEN [err |-> "ValueError", population |-> pop, pop_fitness |-> f, evals |-> 0]
    ELSE LET p1_index == Index(pop, pa)
             p2_index == Index(pop, pb)
         IN  [err |-> "",
              population |-> Put(Put(pop, p1_index, a), p2_index, b),
              pop_fitness |-> f,
              evals |-> 0]

\* self.select_survivors(c1, c2, p1, p2): the outcomes it can have
SelectSurvivorsOutcomes(method, pop, f, a, b, pa, pb, binary) ==
    IF method = "replace_worst"
    THEN {replace_worst(pop, f, a, b, binary, w) : w \in WeakestSolutions(f)}
    ELSE {replace_parents_by_childs(pop, f, a, b, pa, pb)}

---------------------------------------------------------------------------
(* run() *)

\* self.pop_fitness.argmax(): the first index of the maximum
ArgMax(f) == Min({k \in 1..Len(f) : f[k] = MaxFitness(f)}) - 1

\* the loop guard of run()
LoopGuard(evals, f) == evals < MaxEvals /\ FLess(MaxFitness(f), FOne)

\* the report run() builds
Report(evals, pop, f) ==
    [num_fitness_eval |-> evals,
     convergence |-> (MaxFitness(f) = FOne),
     num_solutions |-> Cardinality({k \in 1..Len(f) : f[k] = MaxFitness(f)}),
     solution |-> pop[ArgMax(f) + 1]]

\* random_init_population for the drawn permutations perms
random_init_population(perms, binary) ==
    LET pop == [k \in 1..Len(perms) |->
                   IF binary THEN _to_binary_string(IntList(perms[k]))
                   ELSE IntList(perms[k])]
    IN  [population |-> pop,
         pop_fitness |-> [k \in 1..Len(pop) |-> fitness(pop[k], binary)],
         evals |-> Len(pop)]

---------------------------------------------------------------------------
(* Inputs of the model *)

\* a zero-conflict board and boards near it
KnownSolution == <<4, 2, 7, 3, 6, 8, 5, 1>>
SeedA == <<2, 4, 7, 3, 6, 8, 5, 1>>
SeedB == <<1, 3, 5, 7, 2, 4, 6, 8>>
SeedC == <<2, 3, 4, 7, 6, 8, 5, 1>>
Identity == <<1, 2, 3, 4, 5, 6, 7, 8>>

\* rng.permutation draws of random_init_population: the rows are repeated
\* to fill a population of n individuals
SeedRows == {<<SeedA, SeedB, SeedC, Identity>>, <<Identity, KnownSolution, SeedC>>}
InitialPerms(n) ==
    IF n <= 0 THEN {<<>>}
    ELSE {[k \in 1..n |-> row[((k - 1) % Len(row)) + 1]] : row \in SeedRows}

\* the draws of the operators inside run()
RunCuts == {4}
RunPairs == {<<0, 1>>}
RunFirsts == {0}
RunTies == {0}

\* constructor arguments of the instances that are run
RunArgs ==
    [crossover_prob : {DefaultP_c}, mutation_prob : {DefaultP_m}, pop_size : {PopSize},
     use_binary_rep : {PyBool(FALSE), PyBool(TRUE)},
     recombination_method : 1..4, mutation_method : 1..4,
     parents_sel_method : 1..2, survivor_sel_method : 1..2]

\* constructor arguments, recognized and not
ConstructorArgs ==
    [crossover_prob : {-10, DefaultP_c, 150}, mutation_prob : {DefaultP_m, 150},
     pop_size : {-1, 0, PopSize},
     use_binary_rep : {PyBool(FALSE), PyBool(TRUE), PyInt(2)},
     recombination_method : {0, 1, 4, 5}, mutation_method : {1, 5},
     parents_sel_method : 1..3, survivor_sel_method : 0..2]

\* permutations whose first FreePos positions are those of a base, reordered
FamilyOf(base) ==
    {IntList(front \o SubSeq(base, FreePos + 1, 8)) :
        front \in PermsOf({base[k] : k \in 1..FreePos})}
OperatorInputs == FamilyOf(Identity) \cup FamilyOf(SeedC) \cup FamilyOf(KnownSolution)

AllPermutations == {IntList(q) : q \in PermsOf(1..N)}

---------------------------------------------------------------------------
(* The state machine *)

\* before the constructor has returned there is no instance: every field is
\* unset (0, "" or None, after the type the constructor gives the field)
NoInstance ==
    /\ p_c = 0 /\ p_m = 0 /\ pop_size = 0 /\ use_binary_rep = PyNone
    /\ recombine = "" /\ mutate = ""
    /\ select_parents = "" /\ select_survivors = ""
    /\ population = PyNone /\ pop_fitness = PyNone /\ num_fitness_eval = 0

\* the instance __init__ leaves for the arguments a
Constructed(a) ==
    LET s == InitFields(a)
    IN  /\ p_c = s.p_c /\ p_m = s.p_m /\ pop_size = s.pop_size
        /\ use_binary_rep = s.use_binary_rep
        /\ recombine = s.recombine /\ mutate = s.mutate
        /\ select_parents = s.select_parents /\ select_survivors = s.select_survivors
        /\ population = s.population /\ pop_fitness = s.pop_fitness
        /\ num_fitness_eval = s.num_fitness_eval

NoLocals == p1 = PyNone /\ p2 = PyNone /\ c1 = PyNone /\ c2 = PyNone

\* SGA8Queens(**a)
Construct(a) ==
    /\ pc = "start"
    /\ args' = a
    /\ IF InitRaises(a)
       THEN /\ pc' = "ValueError"
            /\ UNCHANGED <<cfgVars, popVars, num_fitness_eval>>
       ELSE LET s == InitFields(a)
            IN  /\ pc' = "constructed"
                /\ p_c' = s.p_c /\ p_m' = s.p_m /\ pop_size' = s.pop_size
                /\ use_binary_rep' = s.use_binary_rep
                /\ recombine' = s.recombine /\ mutate' = s.mutate
                /\ select_parents' = s.select_parents
                /\ select_survivors' = s.select_survivors
                /\ population' = s.population /\ pop_fitness' = s.pop_fitness
                /\ num_fitness_eval' = s.num_fitness_eval
    /\ UNCHANGED <<locals, gen, report, ret>>

\* run(): self.random_init_population()
RunInit ==
    /\ pc = "constructed"
    /\ pc' = "loop"
    /\ \E perms \in InitialPerms(pop_size) :
          LET r == random_init_population(perms, Truthy(use_binary_rep))
          IN  /\ population' = PyList(r.population)
              /\ pop_fitness' = NpArray(r.pop_fitness)
              /\ num_fitness_eval' = num_fitness_eval + r.evals
    /\ UNCHANGED <<args, cfgVars, locals, gen, report, ret>>

\* run(): the loop guard holds; p1, p2 = self.select_parents()
SelectParents ==
    /\ pc = "loop"
    /\ LoopGuard(num_fitness_eval, pop_fitness.array)
    /\ num_fitness_eval' = num_fitness_eval + SelectParentsEvals(select_parents)
    /\ \E r \in SelectParentsOutcomes(select_parents, population.list, pop_fitness.array,
                                      Truthy(use_binary_rep)) :
          IF r.err # ""
          THEN pc' = "error" /\ UNCHANGED <<p1, p2>>
          ELSE pc' = "recombine" /\ p1' = PyList(r.p1) /\ p2' = PyList(r.p2)
    /\ UNCHANGED <<args, cfgVars, popVars, c1, c2, gen, report, ret>>

\* the crossover and mutation draws of a run succeed only in its first
\* MaxGen generations
MayApply(d) == d.apply => gen < MaxGen

\* run(): c1, c2 = self.recombine(p1, p2), its draws taken from the given sets
Recombine(cuts, pairs, firsts, ties) ==
    /\ pc = "recombine"
    /\ \E d \in RecombinationDraws(recombine, cuts, pairs, firsts, ties) :
          /\ d.apply \in Applies(p_c)
          /\ MayApply(d)
          /\ LET r == Recombination(recombine, p1.list, p2.list, d)
             IN  IF r.err # ""
                 THEN pc' = "error" /\ UNCHANGED <<c1, c2>>
                 ELSE pc' = "mutate1" /\ c1' = PyList(r.c1) /\ c2' = PyList(r.c2)
    /\ UNCHANGED <<args, cfgVars, popVars, num_fitness_eval, p1, p2, gen, report, ret>>

\* run(): c1 = self.mutate(c1), its positions drawn from pairs
MutateC1(pairs) ==
    /\ pc = "mutate1"
    /\ pc' = "mutate2"
    /\ \E d \in MutationDraws(mutate, pairs) :
          /\ d.apply \in Applies(p_m)
          /\ MayApply(d)
          /\ c1' = PyList(Mutation(mutate, c1.list, d))
    /\ UNCHANGED <<args, cfgVars, popVars, num_fitness_eval, p1, p2, c2, gen, report, ret>>

\* run(): c2 = self.mutate(c2), its positions drawn from pairs
MutateC2(pairs) ==
    /\ pc = "mutate2"
    /\ pc' = "survive"
    /\ \E d \in MutationDraws(mutate, pairs) :
          /\ d.apply \in Applies(p_m)
          /\ MayApply(d)
          /\ c2' = PyList(Mutation(mutate, c2.list, d))
    /\ UNCHANGED <<args, cfgVars, popVars, num_fitness_eval, p1, p2, c1, gen, report, ret>>

\* run(): self.select_survivors(c1, c2, p1, p2)
SelectSurvivors ==
    /\ pc = "survive"
    /\ \E r \in SelectSurvivorsOutcomes(select_survivors, population.list,
                                        pop_fitness.array, c1.list, c2.list,
                                        p1.list, p2.list, Truthy(use_binary_rep)) :
          IF r.err # ""
          THEN pc' = "error" /\ UNCHANGED <<popVars, num_fitness_eval, gen>>
          ELSE /\ pc' = "loop"
               /\ population' = PyList(r.population)
               /\ pop_fitness' = NpArray(r.pop_fitness)
               /\ num_fitness_eval' = num_fitness_eval + r.evals
               /\ gen' = IF gen < MaxGen THEN gen + 1 ELSE gen
    /\ UNCHANGED <<args, cfgVars, locals, report, ret>>

\* run(): the loop guard fails; the report is built and returned
ReturnReport ==
    /\ pc = "loop"
    /\ ~LoopGuard(num_fitness_eval, pop_fitness.array)
    /\ pc' = "done"
    /\ report' = Report(num_fitness_eval, population.list, pop_fitness.array)
    /\ UNCHANGED <<args, cfgVars, popVars, num_fitness_eval, locals, gen, ret>>

\* a direct call self.fitness(p1)
FitnessCall ==
    /\ pc = "fitness"
    /\ pc' = "returned"
    /\ ret' = fitness(p1.list, Truthy(use_binary_rep))
    /\ num_fitness_eval' = num_fitness_eval + 1
    /\ UNCHANGED <<args, cfgVars, popVars, locals, gen, report>>

---------------------------------------------------------------------------
(* Specifications *)

\* run() on an instance constructed with recognized arguments
Init ==
    /\ pc = "constructed"
    /\ args \in RunArgs
    /\ Constructed(args)
    /\ NoLocals /\ gen = 0 /\ report = PyNone /\ ret = PyNone

Next ==
    \/ RunInit
    \/ SelectParents
    \/ Recombine(RunCuts, RunPairs, RunFirsts, RunTies)
    \/ MutateC1(RunPairs)
    \/ MutateC2(RunPairs)
    \/ SelectSurvivors
    \/ ReturnReport

Spec == Init /\ [][Next]_vars

\* run() with cut-and-crossfill, swap mutation and integer genes, under the
\* four combinations of parent and survivor selection
FairInit ==
    /\ Init
    /\ args.recombination_method = 1 /\ args.mutation_method = 1
    /\ ~Truthy(args.use_binary_rep)

\* run() is sequential code: it takes its next step whenever it has one
FairSpec == FairInit /\ [][Next]_vars /\ WF_vars(Next)

\* the constructor called with recognized and unrecognized arguments
InitConstruct ==
    /\ pc = "start" /\ args = PyNone
    /\ NoInstance /\ NoLocals /\ gen = 0 /\ report = PyNone /\ ret = PyNone

NextConstruct == \E a \in ConstructorArgs : Construct(a)

SpecConstruct == InitConstruct /\ [][NextConstruct]_vars

\* arguments with the default probabilities and sizes, for the operator calls
OperatorArgs ==
    [crossover_prob : {DefaultP_c}, mutation_prob : {DefaultP_m}, pop_size : {PopSize},
     use_binary_rep : {PyBool(FALSE)},
     recombination_method : 1..4, mutation_method : 1..4,
     parents_sel_method : {1}, survivor_sel_method : {1}]

\* self.recombine(p1, p2) on parents that are permutations of 1..8
InitRecombination ==
    /\ pc = "recombine"
    /\ args \in {a \in OperatorArgs : a.mutation_method = 1}
    /\ Constructed(args)
    /\ p1 \in {PyList(q) : q \in FamilyOf(Identity) \cup FamilyOf(KnownSolution)}
    /\ p2 \in {PyList(q) : q \in FamilyOf(SeedC) \cup {IntList(Identity), IntList(KnownSolution)}}
    /\ c1 = PyNone /\ c2 = PyNone
    /\ gen = 0 /\ report = PyNone /\ ret = PyNone

NextRecombination == Recombine(0..7, AllPairs, 0..7, 0..(TieStreams - 1))

SpecRecombination == InitRecombination /\ [][NextRecombination]_vars

\* self.mutate(c1) on a child that is a permutation of 1..8; p1 keeps the
\* child as it was given
InitMutation ==
    /\ pc = "mutate1"
    /\ args \in {a \in OperatorArgs : a.recombination_method = 1}
    /\ Constructed(args)
    /\ p1 \in {PyList(q) : q \in OperatorInputs} /\ c1 = p1
    /\ p2 = PyNone /\ c2 = PyNone
    /\ gen = 0 /\ report = PyNone /\ ret = PyNone

NextMutation == MutateC1(AllPairs)

SpecMutation == InitMutation /\ [][NextMutation]_vars

\* self.fitness(p1) on every permutation of 1..8, in both representations
InitFitness ==
    /\ pc = "fitness"
    /\ args \in {a \in RunArgs : /\ a.recombination_method = 1 /\ a.mutation_method = 1
                                 /\ a.parents_sel_method = 1 /\ a.survivor_sel_method = 1}
    /\ Constructed(args)
    /\ p1 \in {PyList(IF Truthy(args.use_binary_rep) THEN _to_binary_string(q) ELSE q) :
                  q \in AllPermutations}
    /\ p2 = PyNone /\ c1 = PyNone /\ c2 = PyNone
    /\ gen = 0 /\ report = PyNone /\ ret = PyNone

NextFitness == FitnessCall

SpecFitness == InitFitness /\ [][NextFitness]_vars

---------------------------------------------------------------------------
(* Properties *)

\* the integer value of each gene, whatever its representation
Decoded(individual) ==
    [k \in 1..Len(individual) |->
        IF IsPyInt(individual[k]) THEN individual[k].int
        ELSE ParseBinary(individual[k].str)]

\* a list of 8 Python ints that is a permutation of 1..8
IsPermutation(l) ==
    /\ Len(l) = N
    /\ \A k \in 1..Len(l) : IsPyInt(l[k])
    /\ {l[k].int : k \in 1..Len(l)} = 1..N

\* the pairs of queens that share a row, a diagonal or an anti-diagonal,
\* counted on the board itself; q[k] is the queen of row k
AttackingPairs(q) ==
    Cardinality({pr \in (1..Len(q)) \X (1..Len(q)) :
                    /\ pr[1] < pr[2]
                    /\ \/ q[pr[1]] = q[pr[2]]
                       \/ q[pr[1]] - q[pr[2]] = pr[1] - pr[2]
                       \/ q[pr[1]] - q[pr[2]] = pr[2] - pr[1]})

\* b holds the values of a, each as often as a does
IsRearrangement(a, b) ==
    /\ Len(a) = Len(b)
    /\ \A k \in 1..Len(a) : Count(a, a[k]) = Count(b, a[k])

Binary == Truthy(use_binary_rep)

\* C1: after INIT and after every completed generation the fitness table is
\* aligned with the population: pop_fitness[i] is the fitness of population[i],
\* for both survivor strategies.
C1_FitnessTableAligned ==
    pc \in {"loop", "done"} =>
        \A k \in 1..Len(population.list) :
            pop_fitness.array[k] = fitness(population.list[k], Binary)

\* C2: run() eventually reaches DONE, for every combination of strategies
\* and every initial population.
C2_RunReachesDone == <>(pc = "done")

\* C3: a report with convergence = true carries a solution that is an
\* individual of the final population and has no conflict.
C3_ConvergedSolutionHasNoConflict ==
    (pc = "done" /\ report.convergence) =>
        /\ In(report.solution, population.list)
        /\ AttackingPairs(Decoded(report.solution)) = 0

\* C3 witness: a run that converged after at least one generation.
C3_Witness ==
    /\ pc = "done" /\ report.convergence /\ gen > 0
    /\ select_survivors = "replace_worst"

\* C4: every recombination operator returns, and returns two permutations
\* of 1..8, whatever its draws.
C4_ChildrenArePermutations ==
    pc \in {"mutate1", "error"} =>
        pc = "mutate1" /\ IsPermutation(c1.list) /\ IsPermutation(c2.list)

\* C5: every mutation operator returns a rearrangement of the child it was
\* given, hence a permutation of 1..8.
C5_MutationRearranges ==
    pc = "mutate2" => IsRearrangement(p1.list, c1.list) /\ IsPermutation(c1.list)

\* C5 witness: a mutation that moved genes.
C5_Witness == pc = "mutate2" /\ c1 # p1 /\ mutate = "insert_mutation"

\* C6: the conflict count of fitness() is the number of attacking pairs, so
\* the fitness is 1.0 exactly for the non-attacking boards; the known
\* solution has 0 conflicts and the identity board has some.
C6_FitnessCountsAttackingPairs ==
    pc = "returned" =>
        /\ ret.num = 1
        /\ ret.den - eps = AttackingPairs(Decoded(p1.list))
        /\ (ret = FOne) <=> (AttackingPairs(Decoded(p1.list)) = 0)
        /\ Decoded(p1.list) = KnownSolution => ret.den - eps = 0
        /\ Decoded(p1.list) = Identity => ret.den - eps > 0

\* C6 witness: fitness() has scored the known solution 1.0.
C6_Witness == pc = "returned" /\ Decoded(p1.list) = KnownSolution /\ ret = FOne

\* the configurations the interface calls invalid
InvalidConfiguration(a) ==
    \/ a.recombination_method \notin 1..4
    \/ a.mutation_method \notin 1..4
    \/ a.parents_sel_method \notin 1..2
    \/ a.survivor_sel_method \notin 1..2
    \/ DOMAIN a.use_binary_rep # {"bool"}
    \/ a.crossover_prob < 0 \/ a.crossover_prob > 100
    \/ a.mutation_prob < 0 \/ a.mutation_prob > 100
    \/ a.pop_size <= 0

\* C7: the constructor fails, and yields no instance, for every invalid
\* configuration.
C7_InvalidConfigurationRejected ==
    (pc # "start" /\ InvalidConfiguration(args)) => pc = "ValueError"

\* the configuration of the end-to-end run: tournament selection,
\* cut-and-crossfill, swap mutation, replace-worst
EndToEndConfiguration ==
    /\ select_parents = "select_2_out_5"
    /\ recombine = "cut_and_crossfill_crossover"
    /\ mutate = "swap_mutation"
    /\ select_survivors = "replace_worst"

\* C8 as stated: the end-to-end run reports at most the budget of evaluations.
C8_EvaluationsWithinBudget ==
    (pc = "done" /\ EndToEndConfiguration) => report.num_fitness_eval <= MaxEvals

\* C8 as amended: the end-to-end run reports fewer evaluations than the
\* budget plus the 7 evaluations of one generation.
C8_EvaluationsBelowBudgetPlusGeneration ==
    (pc = "done" /\ EndToEndConfiguration) =>
        report.num_fitness_eval < MaxEvals + TournamentSize + 2

\* C8 witness: an end-to-end run that ended past the budget.
C8_Witness ==
    pc = "done" /\ EndToEndConfiguration /\ report.num_fitness_eval > MaxEvals

\* C9: the reported solution is a permutation of 1..8 given as integers, in
\* the binary representation too.
C9_SolutionIsDecoded == pc = "done" => IsPermutation(report.solution)

\* C10: replace_parents_by_childs finds both parents and overwrites two
\* slots, one with c1 and another with c2, leaving every other slot as it was.
C10_ParentsReplacedByChildren ==
    [][(pc = "survive" /\ select_survivors = "replace_parents_by_childs") =>
          /\ pc' = "loop"
          /\ \E i, j \in 1..Len(population.list) :
                /\ i # j
                /\ population'.list[i] = c1.list /\ population'.list[j] = c2.list
                /\ \A k \in (1..Len(population.list)) \ {i, j} :
                      population'.list[k] = population.list[k]
      ]_vars

=============================================================================
